---- MODULE Spec2Model ----
(***************************************************************************)
(* A model of the coffee-shop drinks API (backend/src/api.py): five routes  *)
(* over one table of drinks, each privileged route behind a permission      *)
(* gate, and the error handlers that turn aborts into JSON envelopes.       *)
(* The state is the drinks table plus the request being handled and its     *)
(* response.                                                                *)
(***************************************************************************)
EXTENDS Integers, Sequences, FiniteSets, TLC

\* Number of row ids the table can hand out (the table holds at most MaxId rows).
MaxId == 2

Ids == 1..MaxId

VARIABLES
    drinks,     \* the drinks table: id -> row
    request,    \* the request being handled, NoRequest between requests
    response,   \* the response to it
    posted,     \* history kept by Spec: ids a successful POST of a well-formed
                \* recipe reported, not deleted since
    deleted     \* history kept by SpecHistory: ids a successful DELETE reported

vars == <<drinks, request, response, posted, deleted>>

----------------------------------------------------------------------------
(* JSON values, as Python sees them after request.get_json().              *)
(* Every value is a record of the same shape so that values of different   *)
(* kinds can be compared.                                                   *)

Scalar(kind, str, num) == [kind |-> kind, str |-> str, num |-> num]

SStr(s) == Scalar("string", s, 0)

SNum(n) == Scalar("number", "", n)

Member(key, val) == [key |-> key, val |-> val]

JSON(kind, str, num, members, items) ==
    [kind |-> kind, str |-> str, num |-> num, members |-> members, items |-> items]

JNull == JSON("null", "", 0, <<>>, <<>>)

JStr(s) == JSON("string", s, 0, <<>>, <<>>)

JNum(n) == JSON("number", "", n, <<>>, <<>>)

JObj(members) == JSON("object", "", 0, members, <<>>)

JArr(items) == JSON("array", "", 0, <<>>, items)

\* A presence test in place of truthiness: only None fails it.
IsNotNone(v) == v.kind # "null"

\* Python truthiness of a JSON value: None, "", 0, [] and {} are falsy.
Truthy(v) ==
    CASE v.kind = "null"   -> FALSE
      [] v.kind = "string" -> v.str # ""
      [] v.kind = "number" -> v.num # 0
      [] v.kind = "object" -> v.members # <<>>
      [] v.kind = "array"  -> v.items # <<>>

----------------------------------------------------------------------------
(* json.dumps / json.loads: the recipe is stored as serialized text, here  *)
(* a sequence of lexical tokens.                                            *)

Tok(t, str, num) == [t |-> t, str |-> str, num |-> num]

P(c) == Tok("punct", c, 0)

ScalarTok(s) ==
    CASE s.kind = "string" -> Tok("string", s.str, 0)
      [] s.kind = "number" -> Tok("number", "", s.num)
      [] OTHER             -> Tok("null", "", 0)

TokScalar(t) ==
    CASE t.t = "string" -> SStr(t.str)
      [] t.t = "number" -> SNum(t.num)
      [] OTHER          -> Scalar("null", "", 0)

RECURSIVE DumpMembers(_)
DumpMembers(ms) ==
    IF ms = <<>> THEN <<>>
    ELSE <<Tok("string", Head(ms).key, 0), P(":"), ScalarTok(Head(ms).val)>>
         \o (IF Len(ms) > 1 THEN <<P(",")>> ELSE <<>>)
         \o DumpMembers(Tail(ms))

DumpObject(ms) == <<P("{")>> \o DumpMembers(ms) \o <<P("}")>>

RECURSIVE DumpItems(_)
DumpItems(items) ==
    IF items = <<>> THEN <<>>
    ELSE DumpObject(Head(items))
         \o (IF Len(items) > 1 THEN <<P(",")>> ELSE <<>>)
         \o DumpItems(Tail(items))

json_dumps(v) ==
    CASE v.kind = "null"   -> <<Tok("null", "", 0)>>
      [] v.kind = "string" -> <<Tok("string", v.str, 0)>>
      [] v.kind = "number" -> <<Tok("number", "", v.num)>>
      [] v.kind = "object" -> DumpObject(v.members)
      [] v.kind = "array"  -> <<P("[")>> \o DumpItems(v.items) \o <<P("]")>>

\* Parse the members of an object; i is the position after "{" or after a member.
RECURSIVE ParseMembers(_, _, _)
ParseMembers(toks, i, acc) ==
    IF toks[i] = P("}") THEN [val |-> acc, next |-> i + 1]
    ELSE IF toks[i] = P(",") THEN ParseMembers(toks, i + 1, acc)
    ELSE ParseMembers(toks, i + 3,
                      Append(acc, Member(toks[i].str, TokScalar(toks[i + 2]))))

\* Parse the elements of an array of objects; i is the position after "[".
RECURSIVE ParseItems(_, _, _)
ParseItems(toks, i, acc) ==
    IF toks[i] = P("]") THEN [val |-> acc, next |-> i + 1]
    ELSE IF toks[i] = P(",") THEN ParseItems(toks, i + 1, acc)
    ELSE LET m == ParseMembers(toks, i + 1, <<>>)
         IN  ParseItems(toks, m.next, Append(acc, m.val))

json_loads(toks) ==
    LET h == toks[1] IN
    CASE h.t = "null"   -> JNull
      [] h.t = "string" -> JStr(h.str)
      [] h.t = "number" -> JNum(h.num)
      [] h = P("{")     -> JObj(ParseMembers(toks, 2, <<>>).val)
      [] h = P("[")     -> JArr(ParseItems(toks, 2, <<>>).val)

----------------------------------------------------------------------------
(* Inputs: the bearer tokens and request bodies that clients send.         *)

Permissions == {"get:drinks-detail", "post:drinks", "patch:drinks", "delete:drinks"}

Token(header, valid, permissions) ==
    [header |-> header, valid |-> valid, permissions |-> permissions]

NoHeader == Token("absent", FALSE, {})

\* A bearer token whose signature or claims do not verify, whatever it claims.
Forged == Token("bearer", FALSE, Permissions)

Barista == Token("bearer", TRUE, {"get:drinks-detail"})

Manager == Token("bearer", TRUE, Permissions)

Tokens == {NoHeader, Forged, Barista, Manager}

Ingredient(color, name, parts) ==
    <<Member("color", SStr(color)), Member("name", SStr(name)),
      Member("parts", SNum(parts))>>

Vodka == Ingredient("blue", "vodka", 2)

\* An ingredient without a name: still carries color and parts.
Syrup == <<Member("color", SStr("red")), Member("parts", SNum(1))>>

Titles == {JStr("Water"), JStr("Tea"), JStr(""), JNull}

Recipes == {JArr(<<Vodka, Syrup>>), JObj(Vodka), JArr(<<>>)}

Body(kind, elems, has, title, recipe) ==
    [kind |-> kind, elems |-> elems, has |-> has, title |-> title, recipe |-> recipe]

\* No JSON body in the request: request.get_json() is None.
AbsentBody == Body("absent", <<>>, {}, JNull, JNull)

\* The JSON body ["title"]: valid JSON, not an object.
ArrayBody == Body("array", <<"title">>, {}, JNull, JNull)

ObjectBodies ==
    {Body("object", <<>>, {}, JNull, JNull)}
    \cup {Body("object", <<>>, {"title"}, t, JNull) : t \in Titles}
    \cup {Body("object", <<>>, {"recipe"}, JNull, r) : r \in Recipes}
    \cup {Body("object", <<>>, {"title", "recipe"}, t, r) : t \in Titles, r \in Recipes}

Bodies == {AbsentBody, ArrayBody} \cup ObjectBodies

Request(route, token, id, body) ==
    [route |-> route, token |-> token, id |-> id, body |-> body]

----------------------------------------------------------------------------
(* The permission gate and the drinks table.                               *)

AuthError(status_code, error) == [ok |-> FALSE, status_code |-> status_code, error |-> error]

\* requires_auth(permission): verify the token, then look the permission up in it.
requires_auth(permission, token) ==
    IF token.header = "absent" THEN AuthError(401, "authorization_header_missing")
    ELSE IF token.header # "bearer" THEN AuthError(401, "invalid_header")
    ELSE IF ~token.valid THEN AuthError(401, "invalid_claims")
    ELSE IF permission \notin token.permissions THEN AuthError(403, "permission_not_found")
    ELSE [ok |-> TRUE, status_code |-> 200, error |-> ""]

Row(title, recipe) == [title |-> title, recipe |-> recipe]

EmptyTable == [i \in {} |-> Row(JNull, <<>>)]

\* The table's constraints on a row written at id: title required and unique.
TableAccepts(table, id, row) ==
    /\ row.title.kind # "null"
    /\ \A other \in DOMAIN table \ {id} : table[other].title # row.title

\* Drink.insert / Drink.update once the constraints hold.
WriteRow(table, id, row) ==
    [i \in DOMAIN table \cup {id} |-> IF i = id THEN row ELSE table[i]]

\* Drink.delete.
DeleteRow(table, id) == [i \in DOMAIN table \ {id} |-> table[i]]

HasKey(members, key) == \E i \in 1..Len(members) : members[i].key = key

ValueOf(members, key) ==
    members[CHOOSE i \in 1..Len(members) : members[i].key = key].val

\* The data model's recipe: a sequence of objects, each with color and parts.
IsRecipe(v) ==
    /\ v.kind = "array"
    /\ \A i \in 1..Len(v.items) :
          HasKey(v.items[i], "color") /\ HasKey(v.items[i], "parts")

\* Drink.short() reads color and parts of each element: it raises on anything
\* but such a sequence.
ShortDefined(row) == IsRecipe(json_loads(row.recipe))

Drink_short(id, row) ==
    LET recipe == json_loads(row.recipe) IN
    [id |-> id, title |-> row.title,
     recipe |-> [i \in 1..Len(recipe.items) |->
                    [color |-> ValueOf(recipe.items[i], "color"),
                     parts |-> ValueOf(recipe.items[i], "parts")]]]

Drink_long(id, row) ==
    [id |-> id, title |-> row.title, recipe |-> json_loads(row.recipe)]

\* Drink.query.all(): the ids of the rows, in id order.
RECURSIVE QueryAll(_)
QueryAll(ids) ==
    IF ids = {} THEN <<>>
    ELSE LET id == CHOOSE i \in ids : \A j \in ids : i <= j
         IN  <<id>> \o QueryAll(ids \ {id})

----------------------------------------------------------------------------
(* Error handlers: every abort(code) and every AuthError becomes an        *)
(* envelope {success, error, message} with the matching status.            *)

Envelope(error, message) == [success |-> FALSE, error |-> error, message |-> message]

Outcome(status, body, table) == [status |-> status, body |-> body, drinks |-> table]

not_found(table) == Outcome(404, Envelope(404, "resource not found"), table)

bad_request(table) == Outcome(400, Envelope(400, "bad request"), table)

\* The persistence failure reported as a bad request.
unprocessable_as_400(table) == Outcome(400, Envelope(400, "bad request"), table)

unprocessable(table) == Outcome(422, Envelope(422, "unprocessable"), table)

auth_error(e, table) == Outcome(e.status_code, Envelope(e.status_code, e.error), table)

\* An exception no handler is registered for (TypeError, AttributeError): the
\* framework answers 500 with its own page, not with an envelope; the session's
\* pending changes are discarded.
InternalServerError(table) ==
    Outcome(500, [html |-> "Internal Server Error"], table)

----------------------------------------------------------------------------
(* Routes.  Each operator is the whole handler, gate included: from the     *)
(* table and the request to the response and the table afterwards.          *)

get_drinks(table, req) ==
    IF \E id \in DOMAIN table : ~ShortDefined(table[id])
    THEN InternalServerError(table)
    ELSE LET ids == QueryAll(DOMAIN table) IN
         Outcome(200,
                 [success |-> TRUE,
                  drinks |-> [i \in 1..Len(ids) |-> Drink_short(ids[i], table[ids[i]])]],
                 table)

\* A copy-and-paste slip: the PATCH route gated like the detail route.
RoutePermissionCopied(route) ==
    CASE route = "GET /drinks-detail"  -> "get:drinks-detail"
      [] route = "POST /drinks"        -> "post:drinks"
      [] route = "PATCH /drinks/<id>"  -> "get:drinks-detail"
      [] route = "DELETE /drinks/<id>" -> "delete:drinks"

\* The permission each @requires_auth decorator names.
RoutePermission(route) ==
    CASE route = "GET /drinks-detail"  -> "get:drinks-detail"
      [] route = "POST /drinks"        -> "post:drinks"
      [] route = "PATCH /drinks/<id>"  -> "patch:drinks"
      [] route = "DELETE /drinks/<id>" -> "delete:drinks"

get_drinks_detail(table, req) ==
    LET auth == requires_auth(RoutePermission(req.route), req.token) IN
    IF ~auth.ok THEN auth_error(auth, table)
    ELSE LET ids == QueryAll(DOMAIN table) IN
         Outcome(200,
                 [success |-> TRUE,
                  drinks |-> [i \in 1..Len(ids) |-> Drink_long(ids[i], table[ids[i]])]],
                 table)

\* data.get(key) on a JSON object: the value, or None.
DictGet(data, key) ==
    IF key \in data.has
    THEN (IF key = "title" THEN data.title ELSE data.recipe)
    ELSE JNull

\* Truthiness of request.get_json(): None, {} and [] are falsy.
BodyTruthy(data) ==
    CASE data.kind = "absent" -> FALSE
      [] data.kind = "array"  -> data.elems # <<>>
      [] data.kind = "object" -> data.has # {}

create_drink(table, newid, req) ==
    LET auth == requires_auth(RoutePermission(req.route), req.token)
        data == req.body
        title == DictGet(data, "title")
        recipe == DictGet(data, "recipe")
        drink == Row(title, json_dumps(recipe))
    IN
    IF ~auth.ok THEN auth_error(auth, table)
    ELSE IF ~BodyTruthy(data) THEN bad_request(table)
    ELSE IF data.kind # "object" THEN InternalServerError(table)
    ELSE IF ~Truthy(title) THEN bad_request(table)
    ELSE IF ~Truthy(recipe) THEN bad_request(table)
    ELSE IF ~TableAccepts(table, newid, drink) THEN unprocessable(table)
    ELSE Outcome(200,
                 [success |-> TRUE, drinks |-> <<Drink_long(newid, drink)>>],
                 WriteRow(table, newid, drink))

\* key in data: raises on None, tests elements of a list, keys of a dict.
InRaises(data) == data.kind = "absent"

In(key, data) ==
    CASE data.kind = "array"  -> \E i \in 1..Len(data.elems) : data.elems[i] = key
      [] data.kind = "object" -> key \in data.has
      [] OTHER                -> FALSE

\* data[key]: raises unless data is a dict (a list takes integer indices).
ItemRaises(data) == data.kind # "object"

\* The recipe written with data.get('recipe') whether or not the key is there.
PatchedRecipeAlways(data, drink) == json_dumps(DictGet(data, "recipe"))

\* Lines 99-102: a field is replaced only if its key is in the body.
PatchedTitle(data, drink) == IF In("title", data) THEN data.title ELSE drink.title

PatchedRecipe(data, drink) ==
    IF In("recipe", data) THEN json_dumps(data.recipe) ELSE drink.recipe

\* The body examined before the row is looked up.
patch_drink_body_first(table, req) ==
    LET auth == requires_auth(RoutePermission(req.route), req.token)
        id == req.id
        data == req.body
        drink == Row(PatchedTitle(data, table[id]), PatchedRecipe(data, table[id]))
    IN
    IF ~auth.ok THEN auth_error(auth, table)
    ELSE IF InRaises(data) THEN InternalServerError(table)
    ELSE IF In("title", data) /\ ItemRaises(data) THEN InternalServerError(table)
    ELSE IF In("recipe", data) /\ ItemRaises(data) THEN InternalServerError(table)
    ELSE IF id \notin DOMAIN table THEN not_found(table)
    ELSE IF ~TableAccepts(table, id, drink) THEN unprocessable(table)
    ELSE Outcome(200,
                 [success |-> TRUE, drinks |-> <<Drink_long(id, drink)>>],
                 WriteRow(table, id, drink))

patch_drink(table, req) ==
    LET auth == requires_auth(RoutePermission(req.route), req.token)
        id == req.id
        data == req.body
        drink == Row(PatchedTitle(data, table[id]), PatchedRecipe(data, table[id]))
    IN
    IF ~auth.ok THEN auth_error(auth, table)
    ELSE IF id \notin DOMAIN table THEN not_found(table)
    ELSE IF InRaises(data) THEN InternalServerError(table)
    ELSE IF In("title", data) /\ ItemRaises(data) THEN InternalServerError(table)
    ELSE IF In("recipe", data) /\ ItemRaises(data) THEN InternalServerError(table)
    ELSE IF ~TableAccepts(table, id, drink) THEN unprocessable(table)
    ELSE Outcome(200,
                 [success |-> TRUE, drinks |-> <<Drink_long(id, drink)>>],
                 WriteRow(table, id, drink))

\* The row answered for but left in the table.
delete_drink_kept(table, req) ==
    LET auth == requires_auth(RoutePermission(req.route), req.token)
        id == req.id
    IN
    IF ~auth.ok THEN auth_error(auth, table)
    ELSE IF id \notin DOMAIN table THEN not_found(table)
    ELSE Outcome(200, [success |-> TRUE, delete |-> id], table)

delete_drink(table, req) ==
    LET auth == requires_auth(RoutePermission(req.route), req.token)
        id == req.id
    IN
    IF ~auth.ok THEN auth_error(auth, table)
    ELSE IF id \notin DOMAIN table THEN not_found(table)
    ELSE Outcome(200, [success |-> TRUE, delete |-> id], DeleteRow(table, id))

----------------------------------------------------------------------------
(* The state machine: one action per route.                                *)

NoRequest == Request("none", NoHeader, 0, AbsentBody)

NoResponse == [status |-> 0, body |-> [html |-> ""]]

Init ==
    /\ drinks = EmptyTable
    /\ request = NoRequest
    /\ response = NoResponse
    /\ posted = {}
    /\ deleted = {}

\* One request is handled at a time, start to finish.
Respond(req, out) ==
    /\ request = NoRequest
    /\ request' = req
    /\ response' = [status |-> out.status, body |-> out.body]
    /\ drinks' = out.drinks

GetDrinks ==
    LET req == Request("GET /drinks", NoHeader, 0, AbsentBody) IN
    /\ Respond(req, get_drinks(drinks, req))
    /\ UNCHANGED <<posted, deleted>>

GetDrinksDetail ==
    \E token \in Tokens :
        LET req == Request("GET /drinks-detail", token, 0, AbsentBody) IN
        /\ Respond(req, get_drinks_detail(drinks, req))
        /\ UNCHANGED <<posted, deleted>>

\* The id the table gives a new row: any id no row holds.
CreateStep(history) ==
    \E token \in Tokens, body \in Bodies, newid \in Ids \ DOMAIN drinks :
        LET req == Request("POST /drinks", token, 0, body)
            out == create_drink(drinks, newid, req)
        IN
        /\ Respond(req, out)
        /\ posted' = IF history = "posted" /\ out.status = 200 /\ IsRecipe(body.recipe)
                     THEN posted \cup {out.body.drinks[1].id}
                     ELSE posted
        /\ UNCHANGED deleted

CreateDrink == CreateStep("posted")

CreateDrinkRecorded == CreateStep("deleted")

PatchDrink ==
    \E token \in Tokens, id \in Ids, body \in Bodies :
        LET req == Request("PATCH /drinks/<id>", token, id, body) IN
        /\ Respond(req, patch_drink(drinks, req))
        /\ UNCHANGED <<posted, deleted>>

DeleteStep(history) ==
    \E token \in Tokens, id \in Ids :
        LET req == Request("DELETE /drinks/<id>", token, id, AbsentBody)
            out == delete_drink(drinks, req)
        IN
        /\ Respond(req, out)
        /\ posted' = IF out.status = 200 THEN posted \ {out.body.delete} ELSE posted
        /\ deleted' = IF history = "deleted" /\ out.status = 200
                      THEN deleted \cup {out.body.delete}
                      ELSE deleted

DeleteDrink == DeleteStep("posted")

DeleteDrinkRecorded == DeleteStep("deleted")

\* The response has been sent: the request context is torn down, the table stays.
Teardown ==
    /\ request # NoRequest
    /\ request' = NoRequest
    /\ response' = NoResponse
    /\ UNCHANGED <<drinks, posted, deleted>>

Next ==
    \/ Teardown
    \/ GetDrinks
    \/ GetDrinksDetail
    \/ CreateDrink
    \/ PatchDrink
    \/ DeleteDrink

Spec == Init /\ [][Next]_vars

\* The same program, remembering the ids of successful DELETEs instead.
NextHistory ==
    \/ Teardown
    \/ GetDrinks
    \/ GetDrinksDetail
    \/ CreateDrinkRecorded
    \/ PatchDrink
    \/ DeleteDrinkRecorded

SpecHistory == Init /\ [][NextHistory]_vars

----------------------------------------------------------------------------
(* Vocabulary of the properties.  A step that handles a request leaves it   *)
(* in request'; drinks is the table before the step, drinks' after it.      *)

GatedRoutes ==
    {"GET /drinks-detail", "POST /drinks", "PATCH /drinks/<id>", "DELETE /drinks/<id>"}

\* The permission the interface description requires on each route.
ClaimedPermission(route) ==
    CASE route = "GET /drinks-detail"  -> "get:drinks-detail"
      [] route = "POST /drinks"        -> "post:drinks"
      [] route = "PATCH /drinks/<id>"  -> "patch:drinks"
      [] route = "DELETE /drinks/<id>" -> "delete:drinks"
      [] OTHER                         -> "none"

\* A valid bearer token that contains the permission.
Carries(token, permission) ==
    /\ token.header = "bearer"
    /\ token.valid
    /\ permission \in token.permissions

Authorized(req) == Carries(req.token, ClaimedPermission(req.route))

IsEnvelope(resp) ==
    /\ DOMAIN resp.body = {"success", "error", "message"}
    /\ resp.body.success = FALSE
    /\ resp.body.error = resp.status

IsSuccess(resp) ==
    /\ resp.status = 200
    /\ "success" \in DOMAIN resp.body
    /\ resp.body.success = TRUE

ListedIds(resp) == {resp.body.drinks[i].id : i \in 1..Len(resp.body.drinks)}

IsEmpty(v) == v \in {JNull, JStr(""), JArr(<<>>)}

\* C1: a request to a gated route whose token is not a valid bearer token
\* containing the route's permission is answered 401 or 403, never 200, whatever
\* its body and id, and leaves the table as it was.
C1_Unauthorized ==
    [][(request' # NoRequest /\ request'.route \in GatedRoutes /\ ~Authorized(request'))
         => /\ response'.status \in {401, 403}
            /\ IsEnvelope(response')
            /\ drinks' = drinks]_vars

\* C1 witness: a valid token without patch:drinks patches an existing drink
\* with a well-formed body and is refused.
C1_Witness ==
    /\ request.route = "PATCH /drinks/<id>"
    /\ request.token = Barista
    /\ request.id \in DOMAIN drinks
    /\ request.body = Body("object", <<>>, {"title", "recipe"}, JStr("Tea"),
                           JArr(<<Vodka, Syrup>>))
    /\ response.status = 403

\* C2: whenever GET /drinks is answered, every drink that a successful POST
\* (valid title, well-formed recipe) reported and no DELETE removed since is in
\* the list exactly once, in short form, under the reported id.
C2_ListedOnce ==
    request.route = "GET /drinks" =>
        \A id \in posted :
              /\ response.status = 200
              /\ Cardinality({i \in 1..Len(response.body.drinks) :
                                 response.body.drinks[i].id = id}) = 1
              /\ \A i \in 1..Len(response.body.drinks) :
                    response.body.drinks[i].id = id =>
                        /\ response.body.drinks[i].title = drinks[id].title
                        /\ \A k \in DOMAIN response.body.drinks[i].recipe :
                              DOMAIN response.body.drinks[i].recipe[k] = {"color", "parts"}

C4_PatchMissing ==
    [][(request' # NoRequest /\ request'.route = "PATCH /drinks/<id>"
        /\ Authorized(request') /\ request'.id \notin DOMAIN drinks)
         => /\ response' = [status |-> 404,
                            body |-> [success |-> FALSE, error |-> 404,
                                      message |-> "resource not found"]]
            /\ drinks' = drinks]_vars

\* C4 witness: such a PATCH with no body at all has been answered 404.
C4_Witness ==
    /\ request.route = "PATCH /drinks/<id>"
    /\ request.token = Manager
    /\ request.id \notin DOMAIN drinks
    /\ request.body = AbsentBody
    /\ response.status = 404

C6_PatchFrame ==
    [][(request' # NoRequest /\ request'.route = "PATCH /drinks/<id>"
        /\ response'.status = 200)
         => LET id == request'.id
                body == request'.body
            IN  /\ id \in DOMAIN drinks
                /\ DOMAIN drinks' = DOMAIN drinks
                /\ \A other \in DOMAIN drinks \ {id} : drinks'[other] = drinks[other]
                /\ "title" \notin body.has => drinks'[id].title = drinks[id].title
                /\ "recipe" \notin body.has => drinks'[id].recipe = drinks[id].recipe
                /\ "title" \in body.has => drinks'[id].title = body.title
                /\ "recipe" \in body.has => json_loads(drinks'[id].recipe) = body.recipe
                /\ response'.body =
                      [success |-> TRUE,
                       drinks |-> <<[id |-> id, title |-> drinks'[id].title,
                                     recipe |-> json_loads(drinks'[id].recipe)]>>]]_vars

\* C6 witness: a PATCH that supplies only a title has succeeded while the table
\* holds another drink as well.
C6_Witness ==
    /\ request.route = "PATCH /drinks/<id>"
    /\ request.body.has = {"title"}
    /\ response.status = 200
    /\ drinks[request.id].recipe = json_dumps(JArr(<<Vodka, Syrup>>))
    /\ Cardinality(DOMAIN drinks) = 2

\* C7: every answered request is either a 200 with success: true or exactly one
\* envelope {success: false, error, message} whose error is the status.
C7_EnvelopeOrSuccess ==
    request # NoRequest => IsSuccess(response) \/ IsEnvelope(response)

\* C8: every stored drink has a non-empty title.
C8_TitleNonEmpty ==
    \A id \in DOMAIN drinks :
        drinks[id].title.kind = "string" /\ drinks[id].title.str # ""

\* C9: the stored recipe of every drink is a sequence of ingredient objects,
\* each with at least color and parts.
C9_RecipeWellFormed ==
    \A id \in DOMAIN drinks : IsRecipe(json_loads(drinks[id].recipe))

\* C10: no two stored drinks share a title; an authorized POST or PATCH that
\* would give a drink the title of another drink answers 422 with
\* {success: false, error: 422, message: "unprocessable"} and leaves the table
\* as it was.
C10_UniqueTitle ==
    [][request' # NoRequest =>
         /\ \A a, b \in DOMAIN drinks' : a # b => drinks'[a].title # drinks'[b].title
         /\ (/\ request'.route = "POST /drinks"
             /\ Authorized(request')
             /\ request'.body.kind = "object"
             /\ request'.body.has = {"title", "recipe"}
             /\ ~IsEmpty(request'.body.title)
             /\ ~IsEmpty(request'.body.recipe)
             /\ \E id \in DOMAIN drinks : drinks[id].title = request'.body.title)
              => /\ response' = [status |-> 422,
                                 body |-> [success |-> FALSE, error |-> 422,
                                           message |-> "unprocessable"]]
                 /\ drinks' = drinks
         /\ (/\ request'.route = "PATCH /drinks/<id>"
             /\ Authorized(request')
             /\ request'.id \in DOMAIN drinks
             /\ request'.body.kind = "object"
             /\ "title" \in request'.body.has
             /\ \E id \in DOMAIN drinks \ {request'.id} :
                   drinks[id].title = request'.body.title)
              => /\ response' = [status |-> 422,
                                 body |-> [success |-> FALSE, error |-> 422,
                                           message |-> "unprocessable"]]
                 /\ drinks' = drinks]_vars

\* C10 witness: a PATCH that would rename a drink to the title of the other
\* drink has been answered 422.
C10_Witness ==
    /\ request.route = "PATCH /drinks/<id>"
    /\ request.token = Manager
    /\ request.id \in DOMAIN drinks
    /\ request.body.kind = "object"
    /\ "title" \in request.body.has
    /\ \E id \in DOMAIN drinks \ {request.id} : drinks[id].title = request.body.title
    /\ drinks[request.id].title # request.body.title
    /\ response.status = 422

====
